---------------------------- MODULE Spec2Model ----------------------------
(***************************************************************************)
(* Credential resolution and refresh of google-automation-mcp:             *)
(*   - SecureCredentialStore (auth/credential_store.py): one JSON file per *)
(*     user, the file name derived from the e-mail address;                *)
(*   - the resolver and the OAuth flows (auth/google_auth.py);             *)
(*   - the start/complete tools and the process-wide pending flow          *)
(*     (appscript_tools.py, tools.py);                                     *)
(*   - the tool decorators (auth/service_adapter.py, tools/gmail.py);      *)
(*   - the CLI adapter (auth/clasp.py);                                    *)
(*   - the client configuration and the setup dialogue                     *)
(*     (auth/oauth_config.py, setup.py).                                   *)
(* Strings the code transforms character by character (e-mail addresses,   *)
(* file names) are sequences of one-character strings.                     *)
(***************************************************************************)
EXTENDS Integers, Sequences, FiniteSets, TLC

VARIABLES
    files,          \* the Store directory: file stem -> file or NoFile
    dir_mode,       \* permission bits of the Store directory
    clasprc,        \* ~/.clasprc.json: NoFile or the CLI's token cache
    now,            \* the clock (hours)
    tz,             \* the host's local-time offset from UTC (hours)
    next_token,     \* serial number of the next access token the provider mints
    next_flow,      \* serial number of the next Flow object
    client_config,  \* whether get_client_config() finds an OAuth client
    _pending_flow,  \* google_auth._pending_flow
    os_environ,     \* os.environ: the OAuth client variables of the process
    _oauth_config,  \* oauth_config._oauth_config: the cached OAuthConfig or None
    env,            \* the host's programs: whether npx, npm and the clasp package are there
    conc,           \* calls of get_credentials_for_user in progress side by side
    recent_start,   \* history: the flow of the latest successful start not completed since
    last            \* history: what the latest call did and returned

vars == <<files, dir_mode, clasprc, now, tz, next_token, next_flow,
          client_config, _pending_flow, os_environ, _oauth_config, env, conc,
          recent_start, last>>

-----------------------------------------------------------------------------
(* Bounds *)

MaxTime == 1
MaxTokens == 2
MaxFlows == 2

-----------------------------------------------------------------------------
(* Values *)

\* Python's None and a path that does not exist; every optional value is None
\* or a record or sequence, so that the two compare.
None == <<>>
NoFile == <<>>

\* a.b@c.d, a_b@c.d and e@c.d
UserDot == <<"a", ".", "b", "@", "c", ".", "d">>
UserUnderscore == <<"a", "_", "b", "@", "c", ".", "d">>
UserPlain == <<"e", "@", "c", ".", "d">>
Users == {UserDot, UserUnderscore, UserPlain}

\* lifetime of an access token the provider mints, in hours
TokenLifetime == 1

MODE_000 == "---------"
MODE_600 == "rw-------"
MODE_644 == "rw-r--r--"
MODE_700 == "rwx------"
MODE_755 == "rwxr-xr-x"

\* the character codes sorted() compares by
Ord(c) ==
    CASE c = "." -> 46
      [] c = "@" -> 64
      [] c = "_" -> 95
      [] c = "a" -> 97
      [] c = "b" -> 98
      [] c = "c" -> 99
      [] c = "d" -> 100
      [] c = "e" -> 101
      [] c = "t" -> 116

-----------------------------------------------------------------------------
(* str.replace and sorted() *)

RECURSIVE Replace(_, _, _)
Replace(s, old, new) ==
    IF Len(s) < Len(old) THEN s
    ELSE IF SubSeq(s, 1, Len(old)) = old
         THEN new \o Replace(SubSeq(s, Len(old) + 1, Len(s)), old, new)
         ELSE <<Head(s)>> \o Replace(Tail(s), old, new)

\* str.split(sep) with a one-character separator
RECURSIVE split(_, _)
split(s, sep) ==
    IF \A i \in 1..Len(s) : s[i] # sep THEN <<s>>
    ELSE LET k == CHOOSE i \in 1..Len(s) : s[i] = sep /\ \A j \in 1..(i - 1) : s[j] # sep
         IN  <<SubSeq(s, 1, k - 1)>> \o split(SubSeq(s, k + 1, Len(s)), sep)

RECURSIVE StrLess(_, _)
StrLess(s, t) ==
    IF t = <<>> THEN FALSE
    ELSE IF s = <<>> THEN TRUE
    ELSE IF Head(s) = Head(t) THEN StrLess(Tail(s), Tail(t))
    ELSE Ord(Head(s)) < Ord(Head(t))

RECURSIVE sorted(_)
sorted(S) ==
    IF S = {} THEN <<>>
    ELSE LET m == CHOOSE x \in S : \A y \in S \ {x} : StrLess(x, y)
         IN  <<m>> \o sorted(S \ {m})

Range(s) == {s[i] : i \in 1..Len(s)}

-----------------------------------------------------------------------------
(* Token records *)

\* An access token: the account the provider issued it for and its serial number.
AccessToken(acct, n) == [acct |-> acct, n |-> n]
\* The refresh token of an account.
RefreshToken(acct) == [acct |-> acct]

\* The token endpoint the code defaults to, and another one.  An optional
\* string is None or a one-element sequence.
TOKEN_URI == <<"https://oauth2.googleapis.com/token">>
OTHER_TOKEN_URI == <<"https://sts.example/token">>

\* Scope names: "s" (script), "d" (drive).
SCOPES == << <<"s">>, <<"d">> >>

\* google.oauth2.credentials.Credentials as the code builds and reads it:
\* token, refresh_token, token_uri, client (client_id and client_secret
\* present), scopes (a list or None), expiry.
Credentials(token, refresh_token, token_uri, client, scopes, expiry) ==
    [token |-> token, refresh_token |-> refresh_token, token_uri |-> token_uri,
     client |-> client, scopes |-> scopes, expiry |-> expiry]

\* A naive datetime (no tzinfo): the hour it names.
datetime(hour) == [hour |-> hour]
utcnow == datetime(now)

\* datetime.isoformat() and datetime.fromisoformat() of a naive datetime
isoformat(dt) == <<"iso", dt.hour>>
fromisoformat(s) == datetime(s[2])

\* Credentials.expired that takes a record without expiry for an expired one
expired_without_expiry(creds) ==
    creds.expiry = None \/ utcnow.hour >= creds.expiry.hour

\* Credentials.expired and Credentials.valid
expired(creds) == creds.expiry # None /\ utcnow.hour >= creds.expiry.hour
valid(creds) == creds.token # None /\ ~expired(creds)

-----------------------------------------------------------------------------
(* SecureCredentialStore *)

AT_MARKER == <<"_", "a", "t", "_">>

_get_credential_path(user_email) ==
    Replace(Replace(user_email, <<"@">>, AT_MARKER), <<".">>, <<"_">>)

\* list_users' conversion of a file stem back to an e-mail address
stem_to_email(stem) ==
    Replace(Replace(stem, AT_MARKER, <<"@">>), <<"_">>, <<".">>)

FileNames == {_get_credential_path(u) : u \in Users}

\* The two conversions over the names of this model, computed once.
path_of == [u \in Users |-> _get_credential_path(u)]
email_of == [f \in FileNames |-> stem_to_email(f)]

_secure_file(fs, path) ==
    IF fs[path] # NoFile THEN [fs EXCEPT ![path].mode = MODE_600] ELSE fs

\* Content of a file that json.load rejects (JSONDecodeError): an empty or
\* truncated file, or bytes that are not JSON.
MALFORMED == <<>>

\* Content that is JSON but not an object, such as [] or null.
JSON_ARRAY == [array |-> <<>>]

\* An exception that leaves the function: what the caller gets in place of a
\* return value.
Raised(exception) == [raised |-> exception]
IsRaised(v) == "raised" \in DOMAIN v

\* Content left by a write of fewer bytes over longer content: the JSON text
\* written, followed by the tail of the text that was there.
Torn(written, was_there) == [torn |-> <<written, was_there>>]

\* json.load(f): the parsed value or JSONDecodeError
json_load(data) ==
    IF data = MALFORMED THEN Raised("JSONDecodeError")
    ELSE IF "torn" \in DOMAIN data THEN Raised("JSONDecodeError")
    ELSE data

\* Whether a parsed value is a dict.  creds_data.get(key) raises
\* AttributeError on any other value; a JSON object is a record whose missing
\* keys are None, as .get reads them.
is_dict(creds_data) == "array" \notin DOMAIN creds_data

\* get_credential catches IOError, json.JSONDecodeError and KeyError and
\* returns None; any other exception leaves it.
get_credential(fs, user_email) ==
    LET creds_path == path_of[user_email]
    IN  IF fs[creds_path] = NoFile THEN None
        ELSE IF fs[creds_path].mode = MODE_000 THEN None
        ELSE LET creds_data == json_load(fs[creds_path].data)
             IN  IF IsRaised(creds_data) THEN None
                 ELSE IF ~is_dict(creds_data) THEN Raised("AttributeError")
                 ELSE LET expiry == IF creds_data.expiry # None
                                    THEN fromisoformat(creds_data.expiry) ELSE None
                      IN  Credentials(creds_data.token, creds_data.refresh_token,
                                      IF creds_data.token_uri = None THEN TOKEN_URI
                                      ELSE creds_data.token_uri,
                                      creds_data.client, creds_data.scopes, expiry)

\* open(path, "w") raises IOError on an existing file the owner may not write.
can_open_w(fs, path) == fs[path] = NoFile \/ fs[path].mode # MODE_000

\* open(creds_path, "w") creates a missing file with the process's default
\* mode and keeps the mode of an existing one; json.dump replaces the content.
write_json(fs, path, creds_data) ==
    [fs EXCEPT ![path] =
        [data |-> creds_data,
         mode |-> IF fs[path] = NoFile THEN MODE_644 ELSE fs[path].mode]]

\* The dict of a store_credential that writes the default token endpoint
\* whatever the record's endpoint is
creds_data_of_default_uri(user_email, credentials) ==
    [token |-> credentials.token,
     refresh_token |-> credentials.refresh_token,
     token_uri |-> TOKEN_URI,
     client |-> credentials.client,
     scopes |-> IF credentials.scopes # None THEN credentials.scopes ELSE None,
     expiry |-> IF credentials.expiry # None
                THEN isoformat(credentials.expiry) ELSE None,
     user_email |-> user_email,
     stored_at |-> isoformat(utcnow)]

\* The dict store_credential serialises
creds_data_of(user_email, credentials) ==
    [token |-> credentials.token,
     refresh_token |-> credentials.refresh_token,
     token_uri |-> IF credentials.token_uri = None THEN TOKEN_URI
                   ELSE credentials.token_uri,
     client |-> credentials.client,
     scopes |-> IF credentials.scopes # None THEN credentials.scopes ELSE None,
     expiry |-> IF credentials.expiry # None
                THEN isoformat(credentials.expiry) ELSE None,
     user_email |-> user_email,
     stored_at |-> isoformat(utcnow)]

\* store_credential: the Store it leaves (unchanged after an IOError)
store_credential(fs, user_email, credentials) ==
    LET creds_path == path_of[user_email]
        creds_data == creds_data_of(user_email, credentials)
    IN  IF ~can_open_w(fs, creds_path) THEN fs
        ELSE _secure_file(write_json(fs, creds_path, creds_data), creds_path)

\* store_credential's return value: True unless the write raised IOError
store_credential_ok(fs, user_email) == can_open_w(fs, path_of[user_email])

delete_credential(fs, user_email) ==
    LET creds_path == path_of[user_email]
    IN  IF fs[creds_path] # NoFile THEN [fs EXCEPT ![creds_path] = NoFile] ELSE fs

list_users(fs) ==
    sorted({email_of[f] : f \in {g \in FileNames : fs[g] # NoFile}})

-----------------------------------------------------------------------------
(* The provider and the CLI's token cache *)

\* Credentials.refresh(): RefreshError without a request when the record lacks
\* the refresh token or the client id and secret, RefreshError when the
\* provider rejects the refresh token, else a new access token and expiry.
refresh(creds, outcome, serial) ==
    IF creds.refresh_token = None \/ ~creds.client
    THEN [error |-> "missing_fields", creds |-> creds]
    ELSE IF outcome = "reject"
    THEN [error |-> "rejected", creds |-> creds]
    ELSE [error |-> "none",
          creds |-> [creds EXCEPT
                        !.token = AccessToken(creds.refresh_token.acct, serial),
                        !.expiry = datetime(now + TokenLifetime)]]

\* get_clasp_tokens(): the "token" entry of ~/.clasprc.json
get_clasp_tokens(rc) ==
    IF rc = NoFile THEN None ELSE rc.token

\* datetime.fromtimestamp(seconds): the host's local time, naive
fromtimestamp(seconds) == datetime(seconds + tz)

MS_PER_UNIT == 1000

clasp_tokens_to_credentials(token_data) ==
    LET expiry == IF token_data.expiry_date # None
                  THEN fromtimestamp(token_data.expiry_date.ms \div MS_PER_UNIT)
                  ELSE None
        scopes == IF token_data.scope # None
                  THEN split(token_data.scope, " ") ELSE None
    IN  Credentials(token_data.access_token, token_data.refresh_token,
                    TOKEN_URI, token_data.client, scopes, expiry)

\* get_user_email_from_credentials(): the id_token's or the userinfo API's
\* answer for the account of the access token, or None when both fail.
get_user_email_from_credentials(credentials, lookup) ==
    IF lookup = "ok" /\ credentials.token # None
    THEN credentials.token.acct ELSE None

-----------------------------------------------------------------------------
(* The resolver.  Each operator returns what the function returns (ret) with *)
(* the Store it leaves (fs) and what it did on the way.                      *)

Outcomes == {"ok", "reject"}
Lookups == {"ok", "fail"}

Resolution(ret, email, fs, attempts, rejected, minted) ==
    [ret |-> ret, email |-> email, fs |-> fs, attempts |-> attempts,
     rejected |-> rejected, minted |-> minted]

\* get_credentials_for_user that returns the refreshed record without
\* writing it to the Store
get_credentials_for_user_unsaved(fs, user_email, outcome, serial) ==
    LET creds == get_credential(fs, user_email)
    IN  IF creds = None THEN Resolution(None, user_email, fs, <<>>, {}, 0)
        ELSE IF IsRaised(creds) THEN Resolution(creds, user_email, fs, <<>>, {}, 0)
        ELSE IF valid(creds) THEN Resolution(creds, user_email, fs, <<>>, {}, 0)
        ELSE IF expired(creds) /\ creds.refresh_token # None
        THEN LET r == refresh(creds, outcome, serial)
             IN  IF r.error = "none"
                 THEN Resolution(r.creds, user_email, fs, <<user_email>>, {}, 1)
                 ELSE Resolution(None, user_email, fs, <<user_email>>,
                                 IF r.error = "rejected" THEN {user_email} ELSE {},
                                 0)
        ELSE Resolution(None, user_email, fs, <<>>, {}, 0)

get_credentials_for_user(fs, user_email, outcome, serial) ==
    LET creds == get_credential(fs, user_email)
    IN  IF creds = None THEN Resolution(None, user_email, fs, <<>>, {}, 0)
        ELSE IF IsRaised(creds) THEN Resolution(creds, user_email, fs, <<>>, {}, 0)
        ELSE IF valid(creds) THEN Resolution(creds, user_email, fs, <<>>, {}, 0)
        ELSE IF expired(creds) /\ creds.refresh_token # None
        THEN LET r == refresh(creds, outcome, serial)
             IN  IF r.error = "none"
                 THEN Resolution(r.creds, user_email,
                                 store_credential(fs, user_email, r.creds),
                                 <<user_email>>, {}, 1)
                 ELSE Resolution(None, user_email, fs, <<user_email>>,
                                 IF r.error = "rejected" THEN {user_email} ELSE {},
                                 0)
        ELSE Resolution(None, user_email, fs, <<>>, {}, 0)

\* The loop of get_any_valid_credentials over the listed users: first_resolving
\* is the loop from one user on, next_user its body once that user's
\* get_credentials_for_user has returned r.
RECURSIVE first_resolving(_, _, _, _, _, _)
next_user(r, users, outcomes, serial, attempts, rejected) ==
    IF r.ret # None
    THEN Resolution(r.ret, Head(users), r.fs, attempts \o r.attempts,
                    rejected \cup r.rejected, r.minted)
    ELSE first_resolving(Tail(users), r.fs, outcomes, serial,
                         attempts \o r.attempts, rejected \cup r.rejected)

first_resolving(users, fs, outcomes, serial, attempts, rejected) ==
    IF users = <<>> THEN Resolution(None, None, fs, attempts, rejected, 0)
    ELSE next_user(get_credentials_for_user(fs, Head(users), outcomes[Head(users)], serial),
                   users, outcomes, serial, attempts, rejected)

\* get_any_valid_credentials that visits the listed users last to first
get_any_valid_credentials_reversed(fs, outcomes, serial) ==
    LET users == list_users(fs)
    IN  first_resolving([i \in 1..Len(users) |-> users[Len(users) + 1 - i]],
                        fs, outcomes, serial, <<>>, {})

get_any_valid_credentials(fs, outcomes, serial) ==
    first_resolving(list_users(fs), fs, outcomes, serial, <<>>, {})

\* get_credentials that prefers the CLI cache to the Store
get_credentials_cli_first(fs, rc, outcomes, lookup, serial) ==
    LET result == get_any_valid_credentials(fs, outcomes, serial)
        token_data == get_clasp_tokens(rc)
    IN  IF token_data # None
        THEN [ret |-> clasp_tokens_to_credentials(token_data), email |-> None,
              fs |-> fs, attempts |-> <<>>, rejected |-> {}, minted |-> 0,
              resolved |-> result.email, cli_read |-> TRUE, imported |-> None]
        ELSE [ret |-> result.ret, email |-> None, fs |-> result.fs,
              attempts |-> result.attempts, rejected |-> result.rejected,
              minted |-> result.minted, resolved |-> result.email,
              cli_read |-> TRUE, imported |-> None]

\* get_credentials() once get_any_valid_credentials() has returned result:
\* resolved is the Store user whose entry resolved (or None), cli_read tells
\* whether ~/.clasprc.json was consulted, imported is the key the CLI's record
\* was stored under (or None).
store_then_clasp(result, rc, lookup) ==
    LET found == [ret |-> result.ret, email |-> None, fs |-> result.fs,
                  attempts |-> result.attempts, rejected |-> result.rejected,
                  minted |-> result.minted, resolved |-> result.email,
                  cli_read |-> FALSE, imported |-> None]
        miss == [found EXCEPT !.cli_read = TRUE]
    IN  IF result.ret # None THEN found
        ELSE LET token_data == get_clasp_tokens(rc)
             IN  IF token_data = None THEN miss
                 ELSE LET creds == clasp_tokens_to_credentials(token_data)
                          user_email == get_user_email_from_credentials(creds, lookup)
                      IN  IF user_email # None
                          THEN [miss EXCEPT
                                  !.ret = creds,
                                  !.fs = store_credential(result.fs, user_email, creds),
                                  !.imported = user_email]
                          ELSE [miss EXCEPT !.ret = creds]

get_credentials(fs, rc, outcomes, lookup, serial) ==
    store_then_clasp(get_any_valid_credentials(fs, outcomes, serial), rc, lookup)

\* store_credentials(credentials, user_email=None)
store_credentials(fs, credentials, user_email, lookup) ==
    LET email == IF user_email = None
                 THEN get_user_email_from_credentials(credentials, lookup)
                 ELSE user_email
    IN  IF email = None THEN [ok |-> FALSE, fs |-> fs, email |-> None]
        ELSE IF ~store_credential_ok(fs, email)
        THEN [ok |-> FALSE, fs |-> fs, email |-> None]
        ELSE [ok |-> TRUE, fs |-> store_credential(fs, email, credentials), email |-> email]

-----------------------------------------------------------------------------
(* The OAuth flows and the pending flow *)

Flow(n) == [id |-> n]

\* set_pending_flow as a slot that keeps a flow already pending
set_pending_flow_keep_first(flow) ==
    IF _pending_flow # None THEN _pending_flow ELSE flow

set_pending_flow(flow) == flow

get_pending_flow == _pending_flow

\* clear_pending_flow that leaves the flow in place
clear_pending_flow_noop == _pending_flow

clear_pending_flow == None

\* flow.fetch_token / flow.run_local_server: the record the provider returns
\* for the account that consented (offline access: with a refresh token).
provider_credentials(acct, serial) ==
    Credentials(AccessToken(acct, serial), RefreshToken(acct), TOKEN_URI, TRUE,
                SCOPES, datetime(now + TokenLifetime))

\* complete_auth_flow(flow, authorization_response): raised when fetch_token
\* raises; otherwise the credentials, after store_credentials(credentials).
complete_auth_flow(fs, redirect_ok, acct, lookup, serial) ==
    IF ~redirect_ok
    THEN [raised |-> TRUE, credentials |-> None, fs |-> fs, stored |-> None]
    ELSE LET credentials == provider_credentials(acct, serial)
             st == store_credentials(fs, credentials, None, lookup)
         IN  [raised |-> FALSE, credentials |-> credentials, fs |-> st.fs,
              stored |-> st.email]

-----------------------------------------------------------------------------
(* History record of the latest call: its name and argument, what it       *)
(* returned and what it did on the way.                                     *)

Call(op) ==
    [op |-> op, user |-> None, before |-> None, ret |-> None, email |-> None,
     attempts |-> <<>>, rejected |-> {}, minted |-> 0, cli_read |-> FALSE,
     imported |-> None, exchanged |-> FALSE, stored |-> None,
     resolved |-> None, outcome |-> None, had_pending |-> FALSE,
     store_was_empty |-> FALSE, wrote |-> FALSE, oauth21 |-> FALSE, msg |-> "",
     prior |-> None, error |-> <<>>, called |-> FALSE, injected |-> None,
     propagated |-> <<>>, lookup |-> None]

FromResolution(op, r) ==
    [Call(op) EXCEPT !.ret = r.ret, !.email = r.email, !.attempts = r.attempts,
                     !.rejected = r.rejected, !.minted = r.minted,
                     !.wrote = (r.fs # files)]

-----------------------------------------------------------------------------
(* Initial state: SecureCredentialStore() has run _ensure_directory on an    *)
(* empty directory; no flow is pending.                                      *)

TzOffsets == {0, 1}

\* Two server processes that share the Store directory, each running one
\* get_credentials_for_user(user_email) call; pc is the statement the call has
\* reached, creds its local Credentials object, size the length in bytes of
\* the JSON text it writes.
Workers == {1, 2}
Idle ==
    [pc |-> "idle", creds |-> None, creds_data |-> None, size |-> 0,
     refreshed |-> FALSE, ret |-> None]

_ensure_directory == MODE_700

\* os.environ with neither OAuth client variable set
Unset == [GOOGLE_OAUTH_CLIENT_ID |-> None, GOOGLE_OAUTH_CLIENT_SECRET |-> None]

Init ==
    /\ files = [f \in FileNames |-> NoFile]
    /\ dir_mode = _ensure_directory
    /\ clasprc = NoFile
    /\ now = 0
    /\ tz \in TzOffsets
    /\ next_token = 1
    /\ next_flow = 1
    /\ client_config \in BOOLEAN
    /\ _pending_flow = None
    /\ env = [npx |-> FALSE, npm |-> FALSE, clasp |-> FALSE]
    /\ os_environ = Unset
    /\ _oauth_config = None
    /\ conc = [procs |-> [w \in Workers |-> Idle], len |-> 0]
    /\ recent_start = None
    /\ last = Call("init")

-----------------------------------------------------------------------------
(* Actions *)

Tick ==
    /\ now < MaxTime
    /\ now' = now + 1
    /\ last' = Call("tick")
    /\ UNCHANGED <<os_environ, _oauth_config, env, conc, files, dir_mode, clasprc, tz, next_token, next_flow,
                   client_config, _pending_flow, recent_start>>

\* store_credentials(credentials, user_email) with a record the provider
\* issued for that user
StoreCredentials(user_email) ==
    /\ next_token <= MaxTokens
    /\ LET credentials == provider_credentials(user_email, next_token)
           st == store_credentials(files, credentials, user_email, "ok")
       IN  /\ files' = st.fs
           /\ last' = [Call("store_credentials") EXCEPT
                          !.user = user_email, !.ret = credentials,
                          !.stored = st.email]
    /\ next_token' = next_token + 1
    /\ UNCHANGED <<os_environ, _oauth_config, env, conc, dir_mode, clasprc, now, tz, next_flow, client_config,
                   _pending_flow, recent_start>>

\* The records a caller hands to store_credential: the access token, the
\* refresh token, the client id and secret and the expiry each present or
\* absent, the token endpoint the default or another one.
TokenRecords(user_email) ==
    {Credentials(token, refresh_token, token_uri, client, scopes, expiry) :
        token \in {None, AccessToken(user_email, 0)},
        refresh_token \in {None, RefreshToken(user_email)},
        token_uri \in {TOKEN_URI, OTHER_TOKEN_URI},
        client \in BOOLEAN,
        scopes \in {SCOPES},
        expiry \in {None, datetime(MaxTime)}}

\* store.store_credential(user_email, credentials)
StoreCredential(user_email, credentials) ==
    /\ files' = store_credential(files, user_email, credentials)
    /\ last' = [Call("store_credential") EXCEPT
                   !.user = user_email, !.before = credentials,
                   !.prior = get_credential(files, user_email),
                   !.ret = <<store_credential_ok(files, user_email)>>,
                   !.wrote = (files' # files)]
    /\ UNCHANGED <<os_environ, _oauth_config, env, conc, dir_mode, clasprc, now, tz, next_token, next_flow,
                   client_config, _pending_flow, recent_start>>

DeleteCredential(user_email) ==
    /\ files' = delete_credential(files, user_email)
    /\ last' = [Call("delete_credential") EXCEPT
                   !.user = user_email, !.ret = <<TRUE>>, !.wrote = (files' # files)]
    /\ UNCHANGED <<os_environ, _oauth_config, env, conc, dir_mode, clasprc, now, tz, next_token, next_flow,
                   client_config, _pending_flow, recent_start>>

GetCredential(user_email) ==
    /\ last' = [Call("get_credential") EXCEPT
                   !.user = user_email, !.ret = get_credential(files, user_email)]
    /\ UNCHANGED <<os_environ, _oauth_config, env, conc, files, dir_mode, clasprc, now, tz, next_token, next_flow,
                   client_config, _pending_flow, recent_start>>

ListUsers ==
    /\ last' = [Call("list_users") EXCEPT !.ret = list_users(files)]
    /\ UNCHANGED <<os_environ, _oauth_config, env, conc, files, dir_mode, clasprc, now, tz, next_token, next_flow,
                   client_config, _pending_flow, recent_start>>

GetCredentialsForUser(user_email, outcome) ==
    \E r \in {get_credentials_for_user(files, user_email, outcome, next_token)} :
        /\ r.minted = 0 \/ next_token <= MaxTokens
        /\ files' = r.fs
        /\ next_token' = next_token + r.minted
        /\ last' = [FromResolution("get_credentials_for_user", r) EXCEPT
                       !.user = user_email, !.outcome = <<outcome>>,
                       !.before = get_credential(files, user_email)]
        /\ UNCHANGED <<os_environ, _oauth_config, env, conc, dir_mode, clasprc, now, tz, next_flow, client_config,
                       _pending_flow, recent_start>>

GetAnyValidCredentials(outcomes) ==
    \E r \in {get_any_valid_credentials(files, outcomes, next_token)} :
        /\ r.minted = 0 \/ next_token <= MaxTokens
        /\ files' = r.fs
        /\ next_token' = next_token + r.minted
        /\ last' = [FromResolution("get_any_valid_credentials", r) EXCEPT
                       !.outcome = <<outcomes>>,
                       !.store_was_empty = (list_users(files) = <<>>)]
        /\ UNCHANGED <<os_environ, _oauth_config, env, conc, dir_mode, clasprc, now, tz, next_flow, client_config,
                       _pending_flow, recent_start>>

GetCredentials(outcomes, lookup) ==
    \E r \in {get_credentials(files, clasprc, outcomes, lookup, next_token)} :
        /\ r.minted = 0 \/ next_token <= MaxTokens
        /\ files' = r.fs
        /\ next_token' = next_token + r.minted
        /\ last' = [FromResolution("get_credentials", r) EXCEPT
                       !.cli_read = r.cli_read, !.imported = r.imported,
                       !.resolved = r.resolved,
                       !.store_was_empty = (list_users(files) = <<>>)]
        /\ UNCHANGED <<os_environ, _oauth_config, env, conc, dir_mode, clasprc, now, tz, next_flow, client_config,
                       _pending_flow, recent_start>>

\* OAuthConfig.is_oauth21_enabled() for a value of MCP_ENABLE_OAUTH21
is_oauth21_enabled(MCP_ENABLE_OAUTH21) == MCP_ENABLE_OAUTH21 = "true"

\* get_service_for_user(service_name, version, user_email) in a process whose
\* environment sets MCP_ENABLE_OAUTH21: ret is the credentials the service is
\* built with, msg the ValueError raised instead.
GetServiceForUser(user_email, MCP_ENABLE_OAUTH21, outcomes, lookup) ==
    \E r \in {IF user_email # None
               THEN get_credentials_for_user(files, user_email,
                                             outcomes[user_email], next_token)
               ELSE get_credentials(files, clasprc, outcomes, lookup, next_token)} :
        /\ r.minted = 0 \/ next_token <= MaxTokens
        /\ files' = r.fs
        /\ next_token' = next_token + r.minted
        /\ last' = [FromResolution("get_service_for_user", r) EXCEPT
                       !.user = user_email,
                       !.oauth21 = is_oauth21_enabled(MCP_ENABLE_OAUTH21),
                       !.msg = IF r.ret # None THEN ""
                               ELSE IF user_email # None
                               THEN "No credentials found for user"
                               ELSE "No valid credentials. Run: google-automation-mcp setup"]
        /\ UNCHANGED <<os_environ, _oauth_config, env, conc, dir_mode, clasprc, now, tz, next_flow, client_config,
                       _pending_flow, recent_start>>

\* get_service_for_user(service_name, version, user_email): the resolution it
\* runs; a ret of None stands for the ValueError raised instead of build().
get_service_for_user(fs, rc, user_email, outcome, outcomes, lookup, serial) ==
    IF user_email # None
    THEN get_credentials_for_user(fs, user_email, outcome, serial)
    ELSE get_credentials(fs, rc, outcomes, lookup, serial)

AUTHENTICATION_ERROR == "Authentication error: "
ERROR == "Error: "

\* with_service(...)(func) called with user_google_email once
\* get_service_for_user has ended as r: exception is what leaves the wrapper
\* (only ValueError is caught), text the result returned without calling func,
\* service the credentials func's service was built with, user_google_email
\* the identity func receives.
with_service(r, user_google_email) ==
    LET quiet == [exception |-> <<>>, text |-> "", called |-> FALSE,
                  service |-> None, user_google_email |-> None]
    IN  IF r.ret = None THEN [quiet EXCEPT !.text = AUTHENTICATION_ERROR]
        ELSE IF IsRaised(r.ret) THEN [quiet EXCEPT !.exception = <<r.ret.raised>>]
        ELSE [quiet EXCEPT
                !.called = TRUE,
                !.service = r.ret,
                !.user_google_email =
                    IF user_google_email # None THEN user_google_email
                    ELSE IF list_users(r.fs) # <<>> THEN list_users(r.fs)[1]
                    ELSE None]

\* _handle_errors that catches HttpError only
_handle_errors_http_only(w) == w

\* _handle_errors(func) around the wrapper's outcome w: every exception
\* becomes a text result.
_handle_errors(w) ==
    IF w.exception # <<>> THEN [w EXCEPT !.exception = <<>>, !.text = ERROR] ELSE w

\* A tool (_handle_errors over with_service over the API function) called
\* with user_google_email, or without it when user_google_email is None
ToolCall(user_google_email, outcome, outcomes, lookup) ==
    \E r \in {get_service_for_user(files, clasprc, user_google_email, outcome,
                                   outcomes, lookup, next_token)} :
        \E w \in {_handle_errors(with_service(r, user_google_email))} :
            /\ r.minted = 0 \/ next_token <= MaxTokens
            /\ files' = r.fs
            /\ next_token' = next_token + r.minted
            /\ last' = [FromResolution("tool", r) EXCEPT
                           !.user = user_google_email,
                           !.before = IF user_google_email = None THEN None
                                      ELSE get_credential(files, user_google_email),
                           !.ret = w.service,
                           !.lookup = r.ret,
                           !.msg = w.text,
                           !.called = w.called,
                           !.injected = w.user_google_email,
                           !.propagated = w.exception,
                           !.store_was_empty = (list_users(files) = <<>>)]
            /\ UNCHANGED <<os_environ, _oauth_config, env, conc, dir_mode, clasprc, now, tz, next_flow, client_config,
                           _pending_flow, recent_start>>

\* The text of create_oauth_flow's ValueError, line by line
NO_OAUTH_CREDENTIALS ==
    <<"No OAuth credentials found.",
      "Use clasp (easiest):",
      "  appscript-mcp setup",
      "Or set environment variables:",
      "  export GOOGLE_OAUTH_CLIENT_ID='your-client-id'",
      "  export GOOGLE_OAUTH_CLIENT_SECRET='your-client-secret'">>

\* The text of auth_interactive's ValueError
NO_CLIENT_CONFIGURATION == <<"No OAuth client configuration found">>

\* start_auth_flow(): create_oauth_flow raises ValueError without a client
\* configuration, else a new Flow and its authorization URL.
start_auth_flow(serial) ==
    IF ~client_config
    THEN [raised |-> TRUE, flow |-> None, auth_url |-> None,
          error |-> NO_OAUTH_CREDENTIALS]
    ELSE [raised |-> FALSE, flow |-> Flow(serial), auth_url |-> <<"auth_url", serial>>,
          error |-> <<>>]

NO_PENDING_FLOW == "No pending authentication flow. Please run start_google_auth first."

StartGoogleAuth ==
    LET r == start_auth_flow(next_flow)
    IN  /\ r.raised \/ next_flow <= MaxFlows
        /\ IF r.raised
           THEN /\ last' = [Call("start_google_auth") EXCEPT
                               !.had_pending = (_pending_flow # None),
                               !.msg = "Failed to start authentication",
                               !.error = r.error]
                /\ UNCHANGED <<os_environ, _oauth_config, env, conc, _pending_flow, recent_start, next_flow>>
           ELSE /\ _pending_flow' = set_pending_flow(r.flow)
                /\ recent_start' = r.flow
                /\ next_flow' = next_flow + 1
                /\ last' = [Call("start_google_auth") EXCEPT
                               !.had_pending = (_pending_flow # None),
                               !.ret = r.flow,
                               !.msg = "Google OAuth Authentication"]
        /\ UNCHANGED <<os_environ, _oauth_config, env, conc, files, dir_mode, clasprc, now, tz, next_token, client_config>>

CompleteGoogleAuth(redirect_ok, acct, lookup) ==
    LET flow == get_pending_flow
    IN  IF flow = None
        THEN /\ last' = [Call("complete_google_auth") EXCEPT !.msg = NO_PENDING_FLOW]
             /\ UNCHANGED <<os_environ, _oauth_config, env, conc, files, dir_mode, clasprc, now, tz, next_token, next_flow,
                            client_config, _pending_flow, recent_start>>
        ELSE LET r == complete_auth_flow(files, redirect_ok, acct, lookup, next_token)
             IN  /\ r.raised \/ next_token <= MaxTokens
                 /\ files' = r.fs
                 /\ next_token' = IF r.raised THEN next_token ELSE next_token + 1
                 /\ _pending_flow' = clear_pending_flow
                 /\ recent_start' = None
                 /\ last' = [Call("complete_google_auth") EXCEPT
                                !.had_pending = TRUE,
                                !.exchanged = TRUE, !.ret = r.credentials,
                                !.stored = r.stored,
                                !.store_was_empty = (list_users(files) = <<>>),
                                !.msg = IF r.raised THEN "Authentication failed"
                                        ELSE "Authentication successful"]
                 /\ UNCHANGED <<os_environ, _oauth_config, env, conc, dir_mode, clasprc, now, tz, next_flow, client_config>>

\* auth_interactive(): ValueError without a client configuration; otherwise
\* run_local_server raises (consent declined) or returns the credentials,
\* which go through store_credentials(credentials) before the return.
AuthInteractive(consent_ok, acct, lookup) ==
    IF ~client_config \/ ~consent_ok
    THEN /\ last' = [Call("auth_interactive") EXCEPT
                        !.exchanged = client_config,
                        !.error = IF ~client_config THEN NO_CLIENT_CONFIGURATION
                                  ELSE <<>>,
                        !.msg = IF ~client_config
                                THEN "No OAuth client configuration found"
                                ELSE "consent declined"]
         /\ UNCHANGED <<os_environ, _oauth_config, env, conc, files, dir_mode, clasprc, now, tz, next_token, next_flow,
                        client_config, _pending_flow, recent_start>>
    ELSE LET credentials == provider_credentials(acct, next_token)
             st == store_credentials(files, credentials, None, lookup)
         IN  /\ next_token <= MaxTokens
             /\ files' = st.fs
             /\ next_token' = next_token + 1
             /\ last' = [Call("auth_interactive") EXCEPT
                            !.exchanged = TRUE, !.ret = credentials,
                            !.stored = st.email,
                            !.store_was_empty = (list_users(files) = <<>>)]
             /\ UNCHANGED <<os_environ, _oauth_config, env, conc, dir_mode, clasprc, now, tz, next_flow, client_config,
                            _pending_flow, recent_start>>

\* run_clasp_login(): the CLI's own login writes its token cache.  The cache
\* may or may not carry a refresh token.
ClaspTokenShapes ==
    {[refresh |-> TRUE, client |-> TRUE],
     [refresh |-> FALSE, client |-> TRUE]}

RunClaspLogin(acct, shape) ==
    /\ next_token <= MaxTokens
    /\ clasprc' =
         [token |->
            [access_token |-> AccessToken(acct, next_token),
             refresh_token |-> IF shape.refresh THEN RefreshToken(acct) ELSE None,
             client |-> shape.client,
             scope |-> <<"s", " ", "d">>,
             expiry_date |-> [ms |-> (now + TokenLifetime) * MS_PER_UNIT]]]
    /\ next_token' = next_token + 1
    /\ last' = [Call("run_clasp_login") EXCEPT !.user = acct]
    /\ UNCHANGED <<os_environ, _oauth_config, env, conc, files, dir_mode, now, tz, next_flow, client_config,
                   _pending_flow, recent_start>>

RunClaspLogout ==
    /\ clasprc # NoFile
    /\ clasprc' = NoFile
    /\ last' = Call("run_clasp_logout")
    /\ UNCHANGED <<os_environ, _oauth_config, env, conc, files, dir_mode, now, tz, next_token, next_flow, client_config,
                   _pending_flow, recent_start>>

-----------------------------------------------------------------------------
(* The OAuth client configuration (auth/oauth_config.py) and the setup      *)
(* dialogue (setup.py).  The value of an environment variable is None or a  *)
(* one-element sequence holding its text.                                    *)

\* OAuthConfig(): the client id and secret read from os.environ
OAuthConfig(environ) ==
    [client_id |-> environ.GOOGLE_OAUTH_CLIENT_ID,
     client_secret |-> environ.GOOGLE_OAUTH_CLIENT_SECRET]

\* Python's truth value of an os.getenv() result
Truthy(v) == v # None /\ v # <<"">>

\* get_oauth_config(): the cached instance, built from os.environ on the
\* first call only
get_oauth_config(cached, environ) ==
    IF cached = None THEN OAuthConfig(environ) ELSE cached

\* OAuthConfig.is_configured()
is_configured(config) == Truthy(config.client_id) /\ Truthy(config.client_secret)

\* is_oauth_configured()
is_oauth_configured(cached, environ) == is_configured(get_oauth_config(cached, environ))

\* get_client_config(): the client of the environment variables, else the
\* content of the first client_secret.json found (secret_file, None without
\* one)
get_client_config(cached, environ, secret_file) ==
    LET config == get_oauth_config(cached, environ)
    IN  IF Truthy(config.client_id) /\ Truthy(config.client_secret)
        THEN [installed |-> [client_id |-> config.client_id,
                             client_secret |-> config.client_secret]]
        ELSE secret_file

CONFIGURED_FOR_SESSION == "OAuth credentials configured for this session"

\* The process starts with the OAuth client variables set or not.
ProcessStart(environ) ==
    /\ last.op = "init"
    /\ os_environ' = environ
    /\ last' = Call("process_start")
    /\ UNCHANGED <<_oauth_config, env, conc, files, dir_mode, clasprc, now, tz, next_token,
                   next_flow, client_config, _pending_flow, recent_start>>

\* run_setup() with the choice "Server/Multi-user": detect_environment(),
\* which asks is_oauth_configured() and get_oauth_config(), then
\* setup_oauth(env) with the user's answers.
RunSetup(response, client_id, client_secret) ==
    LET config == get_oauth_config(_oauth_config, os_environ)
        oauth_configured == is_configured(config)
    IN  /\ _oauth_config' = config
        /\ IF oauth_configured
           THEN /\ UNCHANGED os_environ
                /\ last' = [Call("run_setup") EXCEPT
                               !.ret = <<TRUE>>, !.msg = "already configured"]
           ELSE IF response # "y"
           THEN /\ UNCHANGED os_environ
                /\ last' = [Call("run_setup") EXCEPT !.ret = <<FALSE>>]
           ELSE IF client_id = "" \/ client_secret = ""
           THEN /\ UNCHANGED os_environ
                /\ last' = [Call("run_setup") EXCEPT
                               !.ret = <<FALSE>>,
                               !.msg = "Client ID and Client Secret are required."]
           ELSE /\ os_environ' = [GOOGLE_OAUTH_CLIENT_ID |-> <<client_id>>,
                                  GOOGLE_OAUTH_CLIENT_SECRET |-> <<client_secret>>]
                /\ last' = [Call("run_setup") EXCEPT
                               !.ret = <<TRUE>>, !.msg = CONFIGURED_FOR_SESSION,
                               !.before = [client_id |-> <<client_id>>,
                                           client_secret |-> <<client_secret>>]]
        /\ UNCHANGED <<env, conc, files, dir_mode, clasprc, now, tz, next_token,
                       next_flow, client_config, _pending_flow, recent_start>>

IsOAuthConfigured ==
    /\ _oauth_config' = get_oauth_config(_oauth_config, os_environ)
    /\ last' = [Call("is_oauth_configured") EXCEPT
                   !.ret = <<is_oauth_configured(_oauth_config, os_environ)>>]
    /\ UNCHANGED <<os_environ, env, conc, files, dir_mode, clasprc, now, tz, next_token,
                   next_flow, client_config, _pending_flow, recent_start>>

GetClientConfig(secret_file) ==
    /\ _oauth_config' = get_oauth_config(_oauth_config, os_environ)
    /\ last' = [Call("get_client_config") EXCEPT
                   !.ret = get_client_config(_oauth_config, os_environ, secret_file)]
    /\ UNCHANGED <<os_environ, env, conc, files, dir_mode, clasprc, now, tz, next_token,
                   next_flow, client_config, _pending_flow, recent_start>>

\* reload_oauth_config()
ReloadOAuthConfig ==
    /\ _oauth_config' = OAuthConfig(os_environ)
    /\ last' = Call("reload_oauth_config")
    /\ UNCHANGED <<os_environ, env, conc, files, dir_mode, clasprc, now, tz, next_token,
                   next_flow, client_config, _pending_flow, recent_start>>

-----------------------------------------------------------------------------
(* The CLI adapter (auth/clasp.py).  A subprocess.run ends with an exit     *)
(* code or with one of the exceptions below.                                *)

RunOutcomes == {"exit0", "exit1", "TimeoutExpired", "FileNotFoundError",
                "PermissionError", "OSError"}

\* isinstance(exception, classes) for the exception classes subprocess raises
isinstance(exception, classes) ==
    \/ exception \in classes
    \/ exception \in {"FileNotFoundError", "PermissionError"} /\ "OSError" \in classes

IsException(run) == run \notin {"exit0", "exit1"}

\* Python values a probe returns
PyBool(b) == [bool |-> b]
PyStr(x) == [str |-> x]
PyNone == [none |-> TRUE]

\* is_clasp_installed that catches TimeoutExpired only
is_clasp_installed_timeout_only(e, run) ==
    IF ~e.npx THEN PyBool(FALSE)
    ELSE IF ~IsException(run) THEN PyBool(run = "exit0")
    ELSE IF isinstance(run, {"TimeoutExpired"}) THEN PyBool(FALSE)
    ELSE Raised(run)

\* is_clasp_installed() on a host e where `npx @google/clasp --version` ends
\* as run
is_clasp_installed(e, run) ==
    IF ~e.npx THEN PyBool(FALSE)
    ELSE IF ~IsException(run) THEN PyBool(run = "exit0")
    ELSE IF isinstance(run, {"TimeoutExpired", "FileNotFoundError", "OSError"})
    THEN PyBool(FALSE)
    ELSE Raised(run)

\* is_clasp_authenticated(): False without the file, else the value of
\* `"token" in config and config["token"].get("access_token")`
is_clasp_authenticated(rc) ==
    IF rc = NoFile THEN PyBool(FALSE)
    ELSE IF rc.token.access_token # None THEN PyStr(rc.token.access_token)
    ELSE PyNone

\* The (success, message) pair the adapter's commands return
Pair(success, message) == [success |-> success, message |-> message]

\* install_clasp_global(): `npm install -g @google/clasp` ends as run; after a
\* non-zero exit whose stderr reports a permission problem (eacces) the
\* install is run again under sudo and ends as sudo_run.
install_clasp_global(e, run, eacces, sudo_run) ==
    IF ~e.npm THEN Pair(FALSE, "npm not found. Please install Node.js first")
    ELSE IF run = "exit0" THEN Pair(TRUE, "clasp installed successfully!")
    ELSE IF run = "exit1"
    THEN IF ~eacces THEN Pair(FALSE, "npm install failed")
         ELSE IF sudo_run = "exit0"
         THEN Pair(TRUE, "clasp installed successfully (with sudo)!")
         ELSE IF sudo_run = "exit1" THEN Pair(FALSE, "npm install failed")
         ELSE IF isinstance(sudo_run, {"TimeoutExpired"})
         THEN Pair(FALSE, "Installation timed out")
         ELSE IF isinstance(sudo_run, {"FileNotFoundError"})
         THEN Pair(FALSE, "npm not found")
         ELSE IF isinstance(sudo_run, {"OSError"}) THEN Pair(FALSE, "Installation error")
         ELSE Raised(sudo_run)
    ELSE IF isinstance(run, {"TimeoutExpired"}) THEN Pair(FALSE, "Installation timed out")
    ELSE IF isinstance(run, {"FileNotFoundError"}) THEN Pair(FALSE, "npm not found")
    ELSE IF isinstance(run, {"OSError"}) THEN Pair(FALSE, "Installation error")
    ELSE Raised(run)

\* run_clasp_login that catches TimeoutExpired and FileNotFoundError only
run_clasp_login_no_oserror(e, probe, run) ==
    IF is_clasp_installed(e, probe) # PyBool(TRUE) THEN Pair(FALSE, "clasp is not installed")
    ELSE IF run = "exit0" THEN Pair(TRUE, "Authentication successful!")
    ELSE IF run = "exit1" THEN Pair(FALSE, "Authentication failed or was cancelled")
    ELSE IF isinstance(run, {"TimeoutExpired"})
    THEN Pair(FALSE, "Authentication timed out (5 minutes)")
    ELSE IF isinstance(run, {"FileNotFoundError"}) THEN Pair(FALSE, "npx not found")
    ELSE Raised(run)

\* run_clasp_login(): the probe `--version` ends as probe, `clasp login` as run
run_clasp_login(e, probe, run) ==
    IF is_clasp_installed(e, probe) # PyBool(TRUE) THEN Pair(FALSE, "clasp is not installed")
    ELSE IF run = "exit0" THEN Pair(TRUE, "Authentication successful!")
    ELSE IF run = "exit1" THEN Pair(FALSE, "Authentication failed or was cancelled")
    ELSE IF isinstance(run, {"TimeoutExpired"})
    THEN Pair(FALSE, "Authentication timed out (5 minutes)")
    ELSE IF isinstance(run, {"FileNotFoundError"}) THEN Pair(FALSE, "npx not found")
    ELSE IF isinstance(run, {"OSError"}) THEN Pair(FALSE, "Error running clasp")
    ELSE Raised(run)

\* run_clasp_logout(): the probe ends as probe, `clasp logout` as run
run_clasp_logout(e, probe, run) ==
    IF is_clasp_installed(e, probe) # PyBool(TRUE) THEN Pair(FALSE, "clasp is not installed")
    ELSE IF run = "exit0" THEN Pair(TRUE, "Logged out successfully")
    ELSE IF run = "exit1" THEN Pair(FALSE, "Logout failed")
    ELSE IF isinstance(run, {"TimeoutExpired"}) THEN Pair(FALSE, "Logout timed out")
    ELSE IF isinstance(run, {"FileNotFoundError", "OSError"}) THEN Pair(FALSE, "Error")
    ELSE Raised(run)

\* The ways a subprocess can end on host e: it exits with 0 only when the
\* program it runs is there.
CanEnd(run, present) == run = "exit0" => present

IsClaspInstalled(run) ==
    /\ CanEnd(run, env.clasp)
    /\ last' = [Call("is_clasp_installed") EXCEPT
                   !.ret = is_clasp_installed(env, run),
                   !.outcome = <<run>>]
    /\ UNCHANGED <<os_environ, _oauth_config, env, conc, files, dir_mode, clasprc, now, tz, next_token, next_flow,
                   client_config, _pending_flow, recent_start>>

IsClaspAuthenticated ==
    /\ last' = [Call("is_clasp_authenticated") EXCEPT
                   !.ret = is_clasp_authenticated(clasprc)]
    /\ UNCHANGED <<os_environ, _oauth_config, env, conc, files, dir_mode, clasprc, now, tz, next_token, next_flow,
                   client_config, _pending_flow, recent_start>>

\* install_clasp_global(); a successful install puts the clasp package on the
\* host.
InstallClaspGlobal(run, eacces, sudo_run) ==
    /\ CanEnd(run, env.npm)
    /\ CanEnd(sudo_run, env.npm)
    /\ \E r \in {install_clasp_global(env, run, eacces, sudo_run)} :
          /\ env' = IF ~IsRaised(r) /\ r.success THEN [env EXCEPT !.clasp = TRUE] ELSE env
          /\ last' = [Call("install_clasp_global") EXCEPT
                         !.ret = r, !.outcome = <<run, sudo_run>>, !.oauth21 = eacces]
    /\ UNCHANGED <<os_environ, _oauth_config, conc, files, dir_mode, clasprc, now, tz, next_token, next_flow,
                   client_config, _pending_flow, recent_start>>

\* run_clasp_login(); a successful `clasp login` of acct writes the token cache.
ClaspLogin(probe, run, acct, shape) ==
    /\ CanEnd(probe, env.clasp)
    /\ CanEnd(run, env.clasp)
    /\ \E r \in {run_clasp_login(env, probe, run)} :
          /\ IF ~IsRaised(r) /\ r.success
             THEN /\ next_token <= MaxTokens
                  /\ next_token' = next_token + 1
                  /\ clasprc' =
                       [token |->
                          [access_token |-> AccessToken(acct, next_token),
                           refresh_token |-> IF shape.refresh THEN RefreshToken(acct)
                                             ELSE None,
                           client |-> shape.client,
                           scope |-> <<"s", " ", "d">>,
                           expiry_date |-> [ms |-> (now + TokenLifetime) * MS_PER_UNIT]]]
             ELSE UNCHANGED <<clasprc, next_token>>
          /\ last' = [Call("clasp_login") EXCEPT
                         !.user = acct, !.ret = r, !.outcome = <<probe, run>>]
    /\ UNCHANGED <<os_environ, _oauth_config, env, conc, files, dir_mode, now, tz, next_flow, client_config,
                   _pending_flow, recent_start>>

\* run_clasp_logout(); a successful `clasp logout` removes the token cache.
ClaspLogout(probe, run) ==
    /\ CanEnd(probe, env.clasp)
    /\ CanEnd(run, env.clasp)
    /\ \E r \in {run_clasp_logout(env, probe, run)} :
          /\ clasprc' = IF ~IsRaised(r) /\ r.success THEN NoFile ELSE clasprc
          /\ last' = [Call("clasp_logout") EXCEPT !.ret = r, !.outcome = <<probe, run>>]
    /\ UNCHANGED <<os_environ, _oauth_config, env, conc, files, dir_mode, now, tz, next_token, next_flow,
                   client_config, _pending_flow, recent_start>>

\* The host: programs are installed or removed
HostSetPrograms(e) ==
    /\ env # e
    /\ env' = e
    /\ last' = Call("host_programs")
    /\ UNCHANGED <<os_environ, _oauth_config, conc, files, dir_mode, clasprc, now, tz, next_token, next_flow,
                   client_config, _pending_flow, recent_start>>

\* The host: another party widens the permission bits of the Store directory
\* or of a credential file (the misconfiguration the Store narrows against).
HostChmodDirectory(mode) ==
    /\ dir_mode # mode
    /\ dir_mode' = mode
    /\ last' = Call("host_chmod")
    /\ UNCHANGED <<os_environ, _oauth_config, env, conc, files, clasprc, now, tz, next_token, next_flow, client_config,
                   _pending_flow, recent_start>>

HostChmodFile(path, mode) ==
    /\ files[path] # NoFile
    /\ files[path].mode # mode
    /\ files' = [files EXCEPT ![path].mode = mode]
    /\ last' = Call("host_chmod")
    /\ UNCHANGED <<os_environ, _oauth_config, env, conc, dir_mode, clasprc, now, tz, next_token, next_flow, client_config,
                   _pending_flow, recent_start>>

\* get_credentials_for_user(user_email) statement by statement, as one of
\* several processes runs it.  The others' steps may fall between any two.
Proc(w) == conc.procs[w]
Goto(w, proc) == [conc EXCEPT !.procs[w] = proc]
Finish(w, ret) == Goto(w, [Proc(w) EXCEPT !.pc = "done", !.ret = ret])

\* creds = store.get_credential(user_email), the validity check and the test
\* that decides on a refresh (google_auth.py:190-201)
WorkerRead(w, user_email) ==
    /\ Proc(w).pc = "idle"
    /\ LET creds == get_credential(files, user_email)
       IN  conc' = IF creds = None THEN Finish(w, None)
                   ELSE IF IsRaised(creds) THEN Finish(w, creds)
                   ELSE IF valid(creds) THEN Finish(w, creds)
                   ELSE IF expired(creds) /\ creds.refresh_token # None
                   THEN Goto(w, [Proc(w) EXCEPT !.pc = "refresh", !.creds = creds])
                   ELSE Finish(w, None)
    /\ last' = Call("worker_read")
    /\ UNCHANGED <<os_environ, _oauth_config, env, files, dir_mode, clasprc, now, tz, next_token, next_flow,
                   client_config, _pending_flow, recent_start>>

\* creds.refresh(Request()) (line 203); size is the length of the JSON text
\* of the refreshed record, which depends on the token the provider issued.
WorkerRefresh(w, outcome, size) ==
    /\ Proc(w).pc = "refresh"
    /\ LET r == refresh(Proc(w).creds, outcome, next_token)
       IN  IF r.error # "none"
           THEN /\ conc' = Finish(w, None)
                /\ UNCHANGED next_token
           ELSE /\ next_token <= MaxTokens
                /\ next_token' = next_token + 1
                /\ conc' = Goto(w, [Proc(w) EXCEPT !.pc = "open", !.creds = r.creds,
                                                  !.size = size, !.refreshed = TRUE])
    /\ last' = Call("worker_refresh")
    /\ UNCHANGED <<os_environ, _oauth_config, env, files, dir_mode, clasprc, now, tz, next_flow,
                   client_config, _pending_flow, recent_start>>

\* store.store_credential(user_email, credentials) called on its own (as
\* store_credentials does after a flow completes); size is the length of the
\* JSON text of the record.
WorkerStoreCredential(w, credentials, size) ==
    /\ Proc(w).pc = "idle"
    /\ conc' = Goto(w, [Proc(w) EXCEPT !.pc = "open", !.creds = credentials,
                                      !.size = size])
    /\ last' = Call("worker_store_credential")
    /\ UNCHANGED <<os_environ, _oauth_config, env, files, dir_mode, clasprc, now, tz, next_token, next_flow,
                   client_config, _pending_flow, recent_start>>

\* store_credential up to open(creds_path, "w") (credential_store.py:170-185):
\* the dict is built and the file is created or truncated to no bytes.
WorkerOpen(w, user_email) ==
    /\ Proc(w).pc = "open"
    /\ IF ~can_open_w(files, path_of[user_email])
       THEN /\ conc' = Finish(w, Proc(w).creds)
            /\ UNCHANGED files
       ELSE /\ files' = write_json(files, path_of[user_email], MALFORMED)
            /\ conc' = [Goto(w, [Proc(w) EXCEPT
                                    !.pc = "write",
                                    !.creds_data = creds_data_of(user_email, Proc(w).creds)])
                        EXCEPT !.len = 0]
    /\ last' = Call("worker_open")
    /\ UNCHANGED <<os_environ, _oauth_config, env, dir_mode, clasprc, now, tz, next_token, next_flow,
                   client_config, _pending_flow, recent_start>>

\* json.dump(creds_data, f) and the close of the file (lines 185-186): the
\* text goes to the file from offset 0 in one write; bytes beyond its end that
\* another writer put there since this writer's truncation stay.
WorkerWrite(w, user_email) ==
    /\ Proc(w).pc = "write"
    /\ LET path == path_of[user_email]
           content == IF conc.len <= Proc(w).size THEN Proc(w).creds_data
                      ELSE Torn(Proc(w).creds_data, files[path].data)
       IN  files' = [files EXCEPT ![path].data = content]
    /\ conc' = [Goto(w, [Proc(w) EXCEPT !.pc = "chmod"])
                EXCEPT !.len = IF conc.len <= Proc(w).size THEN Proc(w).size ELSE conc.len]
    /\ last' = Call("worker_write")
    /\ UNCHANGED <<os_environ, _oauth_config, env, dir_mode, clasprc, now, tz, next_token, next_flow,
                   client_config, _pending_flow, recent_start>>

\* self._secure_file(creds_path) and the return of the refreshed credentials
\* (credential_store.py:189, google_auth.py:206)
WorkerSecure(w, user_email) ==
    /\ Proc(w).pc = "chmod"
    /\ files' = _secure_file(files, path_of[user_email])
    /\ conc' = Finish(w, Proc(w).creds)
    /\ last' = Call("worker_secure")
    /\ UNCHANGED <<os_environ, _oauth_config, env, dir_mode, clasprc, now, tz, next_token, next_flow,
                   client_config, _pending_flow, recent_start>>

\* The host: a client-secret file is put at one of the paths get_client_config
\* looks at, or the last one is removed
HostClientSecretFile(found) ==
    /\ client_config' = found
    /\ last' = Call("host_client_secret")
    /\ UNCHANGED <<os_environ, _oauth_config, env, conc, files, dir_mode, clasprc, now, tz, next_token, next_flow,
                   _pending_flow, recent_start>>

\* The host: the content of a credential file is replaced from outside the
\* process (a crash in mid-write, an editor, a restore) by bytes that are not
\* JSON or by JSON that is not an object.
HostWriteFile(path, data) ==
    /\ files' = [files EXCEPT ![path] =
                    [data |-> data,
                     mode |-> IF files[path] = NoFile THEN MODE_600
                              ELSE files[path].mode]]
    /\ files' # files
    /\ last' = Call("host_write")
    /\ UNCHANGED <<os_environ, _oauth_config, env, conc, dir_mode, clasprc, now, tz, next_token, next_flow, client_config,
                   _pending_flow, recent_start>>

-----------------------------------------------------------------------------
(* Specifications.  Next is every operation; the three specifications below  *)
(* each run one component's operations with the others' state at rest.       *)

StoreNext ==
    \/ Tick
    \/ \E u \in Users : StoreCredentials(u)
    \/ \E u \in Users : DeleteCredential(u)
    \/ \E u \in Users : GetCredential(u)
    \/ ListUsers
    \/ \E mode \in {MODE_700, MODE_755} : HostChmodDirectory(mode)
    \/ \E path \in FileNames, mode \in {MODE_600, MODE_644} : HostChmodFile(path, mode)

\* The accounts that sign in while the resolver is exercised, and the provider's
\* answers to the refreshes of one call: one per Store entry.
Accounts == {UserUnderscore, UserPlain}
RefreshOutcomes == [Range(list_users(files)) -> Outcomes]

ResolverNext ==
    \/ Tick
    \/ \E u \in Accounts : StoreCredentials(u)
    \/ \E u \in Users, outcome \in Outcomes : GetCredentialsForUser(u, outcome)
    \/ \E outcomes \in RefreshOutcomes : GetAnyValidCredentials(outcomes)
    \/ \E outcomes \in RefreshOutcomes, lookup \in Lookups :
          GetCredentials(outcomes, lookup)
    \/ \E acct \in Accounts, shape \in ClaspTokenShapes : RunClaspLogin(acct, shape)
    \/ RunClaspLogout

\* Tool calls with and without user_google_email, under either setting of the flag
ServiceNext ==
    \/ Tick
    \/ \E u \in Accounts : StoreCredentials(u)
    \/ \E acct \in Accounts, shape \in ClaspTokenShapes : RunClaspLogin(acct, shape)
    \/ \E user_email \in Range(list_users(files)) \cup {None},
          MCP_ENABLE_OAUTH21 \in {"true", "false"},
          outcomes \in RefreshOutcomes, lookup \in Lookups :
          GetServiceForUser(user_email, MCP_ENABLE_OAUTH21, outcomes, lookup)

\* Tools called with and without user_google_email over a Store whose entries
\* may have expired or been damaged, beside a CLI token cache.
ToolNext ==
    \/ Tick
    \/ \E u \in Accounts : StoreCredentials(u)
    \/ \E acct \in Accounts, shape \in ClaspTokenShapes : RunClaspLogin(acct, shape)
    \/ \E u \in Accounts : HostWriteFile(path_of[u], JSON_ARRAY)
    \/ \E user_google_email \in Users, outcome \in Outcomes :
          ToolCall(user_google_email, outcome, [u \in {} |-> "ok"], "ok")
    \/ \E outcomes \in RefreshOutcomes, lookup \in Lookups :
          ToolCall(None, "ok", outcomes, lookup)

\* The setup dialogue and the configuration accessors in one process
ClientIds == {"", "id-1", "id-2"}
ClientSecrets == {"", "secret-1"}
SecretFiles == {None, [installed |-> [client_id |-> <<"file-id">>,
                                      client_secret |-> <<"file-secret">>]]}

SetupNext ==
    \/ \E id \in ClientIds, secret \in ClientSecrets :
          ProcessStart(IF id = "" /\ secret = "" THEN Unset
                       ELSE [GOOGLE_OAUTH_CLIENT_ID |-> <<id>>,
                             GOOGLE_OAUTH_CLIENT_SECRET |-> <<secret>>])
    \/ \E response \in {"y", "n"}, client_id \in ClientIds,
          client_secret \in ClientSecrets :
          RunSetup(response, client_id, client_secret)
    \/ IsOAuthConfigured
    \/ \E secret_file \in SecretFiles : GetClientConfig(secret_file)
    \/ ReloadOAuthConfig

\* The CLI adapter on hosts with and without node, npm and clasp
Hosts == [npx : BOOLEAN, npm : BOOLEAN, clasp : BOOLEAN]

CliNext ==
    \/ \E e \in Hosts : HostSetPrograms(e)
    \/ \E run \in RunOutcomes : IsClaspInstalled(run)
    \/ IsClaspAuthenticated
    \/ \E run \in RunOutcomes, eacces \in BOOLEAN, sudo_run \in RunOutcomes :
          InstallClaspGlobal(run, eacces, sudo_run)
    \/ \E probe \in RunOutcomes, run \in RunOutcomes, shape \in ClaspTokenShapes :
          ClaspLogin(probe, run, UserPlain, shape)
    \/ \E probe \in RunOutcomes, run \in RunOutcomes : ClaspLogout(probe, run)

\* One user's entry, written with every shape of record and damaged by the
\* host, then read and resolved.
RecordNext ==
    \/ Tick
    \/ \E credentials \in TokenRecords(UserPlain) : StoreCredential(UserPlain, credentials)
    \/ HostWriteFile(path_of[UserPlain], MALFORMED)
    \/ HostWriteFile(path_of[UserPlain], JSON_ARRAY)
    \/ \E mode \in {MODE_000, MODE_600} : HostChmodFile(path_of[UserPlain], mode)
    \/ GetCredential(UserPlain)
    \/ \E outcome \in Outcomes : GetCredentialsForUser(UserPlain, outcome)

\* The lengths a refreshed record's JSON text may have
JsonSizes == {1, 2}

\* One user's entry is stored, expires, and two processes resolve it side by side.
ConcurrentNext ==
    \/ Tick
    \/ /\ files[path_of[UserPlain]] = NoFile
       /\ \E credentials \in {c \in TokenRecords(UserPlain) :
                                 c.token # None /\ c.refresh_token # None /\ c.expiry # None} :
             StoreCredential(UserPlain, credentials)
    \/ \E w \in Workers : WorkerRead(w, UserPlain)
    \/ \E w \in Workers, size \in JsonSizes :
          WorkerStoreCredential(w, provider_credentials(UserPlain, 0), size)
    \/ \E w \in Workers, outcome \in Outcomes, size \in JsonSizes :
          WorkerRefresh(w, outcome, size)
    \/ \E w \in Workers : WorkerOpen(w, UserPlain)
    \/ \E w \in Workers : WorkerWrite(w, UserPlain)
    \/ \E w \in Workers : WorkerSecure(w, UserPlain)
    \/ GetCredential(UserPlain)

FlowNext ==
    \/ StartGoogleAuth
    \/ \E redirect_ok \in BOOLEAN, acct \in Users, lookup \in Lookups :
          CompleteGoogleAuth(redirect_ok, acct, lookup)
    \/ \E consent_ok \in BOOLEAN, acct \in Users, lookup \in Lookups :
          AuthInteractive(consent_ok, acct, lookup)
    \/ ListUsers
    \/ \E found \in BOOLEAN : HostClientSecretFile(found)

Next ==
    \/ StoreNext \/ ResolverNext \/ ServiceNext \/ ToolNext \/ CliNext \/ SetupNext
    \/ RecordNext
    \/ ConcurrentNext \/ FlowNext

Spec == Init /\ [][Next]_vars

SpecStore == Init /\ [][StoreNext]_vars
SpecResolver == Init /\ [][ResolverNext]_vars
SpecService == Init /\ [][ServiceNext]_vars
SpecTools == Init /\ [][ToolNext]_vars
SpecCli == Init /\ [][CliNext]_vars
SpecSetup == Init /\ [][SetupNext]_vars
SpecRecords == Init /\ [][RecordNext]_vars
SpecConcurrent == Init /\ [][ConcurrentNext]_vars
SpecFlows == Init /\ [][FlowNext]_vars

-----------------------------------------------------------------------------
(* Claims about the Credential Store, checked under SpecStore *)

Listed(fs, user_email) == user_email \in Range(list_users(fs))

\* C1 (as claimed): a store or delete on user A's key leaves get(B) and B's
\* presence in list() as they were for every other user B, and the record
\* stored under A is not what get(B) returns.
C1_StoreIsolation ==
    [][\A A \in Users : \A B \in Users \ {A} :
          (last'.op \in {"store_credentials", "delete_credential"} /\ last'.user = A)
          => /\ get_credential(files', B) = get_credential(files, B)
             /\ Listed(files', B) <=> Listed(files, B)
             /\ last'.op = "store_credentials" => get_credential(files', B) # last'.ret
      ]_vars

\* C1: the state the claim is about: two users hold entries and one of them
\* has just been written.
C1_TwoEntriesWritten ==
    /\ last.op = "store_credentials"
    /\ Len(list_users(files)) = 2

\* C2 (as claimed): decoding the file name of an e-mail address gives the
\* address back, so after store(e, r) list_users() contains e.
C2_IdentityInvertible ==
    last.op = "store_credentials" /\ last.stored # None
    => /\ stem_to_email(_get_credential_path(last.user)) = last.user
       /\ Listed(files, last.user)

\* C10 (as claimed): right after a successful store() the user's file has
\* mode 600 and the Store directory has mode 700, whatever they were before.
C10_PermissionInvariant ==
    last.op = "store_credentials" /\ last.stored # None
    => /\ files[path_of[last.user]].mode = MODE_600
       /\ dir_mode = MODE_700

-----------------------------------------------------------------------------
(* Claims about the resolver, checked under SpecResolver *)

ResolutionCalls ==
    {"get_credentials_for_user", "get_any_valid_credentials", "get_credentials"}

\* C3 (as claimed): a resolution call in which the provider rejected the
\* refresh of an identity does not return credentials of that identity.
C3_NoFallbackAfterRejection ==
    last.op \in ResolutionCalls
    => \A u \in last.rejected : last.ret = None \/ last.ret.token.acct # u

\* The stored record was expired and had a refresh token when the call began.
StaleRefreshable(creds) ==
    /\ creds # None
    /\ creds.expiry # None
    /\ creds.expiry.hour <= now
    /\ creds.refresh_token # None

\* C4: get_credentials_for_user on an expired record with a refresh token
\* makes exactly one refresh attempt, and no resolution call attempts the
\* refresh of one user twice; when the provider accepts the refresh the call
\* returns a record that expires in the future, differs from the stale one and
\* is what get(user) returns from then on.
C4_ExpiryPolicy ==
    /\ last.op \in ResolutionCalls
       => \A i, j \in 1..Len(last.attempts) :
             last.attempts[i] = last.attempts[j] => i = j
    /\ (last.op = "get_credentials_for_user" /\ StaleRefreshable(last.before))
       => /\ last.attempts = <<last.user>>
          /\ (last.outcome = <<"ok">> /\ last.before.client)
             => /\ last.ret # None
                /\ last.ret.expiry.hour > now
                /\ last.ret # last.before
                /\ last.ret.token # last.before.token
                /\ get_credential(files, last.user) = last.ret

\* C4: an expired record was refreshed and returned.
C4_Refreshed ==
    /\ last.op = "get_credentials_for_user"
    /\ StaleRefreshable(last.before)
    /\ last.outcome = <<"ok">>
    /\ last.ret # None

C6_CliImport ==
    (/\ last.op = "get_credentials"
     /\ last.store_was_empty
     /\ clasprc # NoFile
     /\ clasprc.token.expiry_date.ms > now * MS_PER_UNIT)
    => /\ last.ret # None
       /\ last.ret.token = clasprc.token.access_token
       /\ Listed(files, clasprc.token.access_token.acct)
       /\ \A outcomes \in RefreshOutcomes, lookup \in Lookups :
             ~get_credentials(files, clasprc, outcomes, lookup, next_token).cli_read

-----------------------------------------------------------------------------
(* Claims about the OAuth flows and the pending flow, checked under SpecFlows *)

\* C7 (as claimed): when complete_auth_flow or auth_interactive returns a
\* credential, the Store holds an entry for its account with the same access
\* token; from an empty Store a completed flow leaves exactly one entry.
C7_PersistBeforeReturn ==
    (last.op \in {"complete_google_auth", "auth_interactive"} /\ last.ret # None)
    => /\ get_credential(files, last.ret.token.acct) # None
       /\ get_credential(files, last.ret.token.acct).token = last.ret.token
       /\ last.store_was_empty => Len(list_users(files)) = 1

\* C8: the pending flow is the flow of the latest successful start that has
\* not been completed since, or none; a start with a client configuration
\* succeeds and installs its own flow, whether or not a flow was pending.
C8_SingleSlotPendingFlow ==
    /\ _pending_flow = recent_start
    /\ last.op = "start_google_auth"
       => IF client_config
          THEN /\ last.ret # None
               /\ _pending_flow = last.ret
               /\ last.msg = "Google OAuth Authentication"
          ELSE /\ last.ret = None
               /\ last.msg = "Failed to start authentication"

\* C8: a second start replaced a flow that was never completed.
C8_SecondStartReplaced ==
    /\ last.op = "start_google_auth"
    /\ last.had_pending
    /\ last.ret # None
    /\ _pending_flow = last.ret

\* C9: after complete_google_auth no flow is pending, whether the exchange
\* succeeded or failed; without a pending flow it returns the "no pending
\* authentication flow" result, exchanges no token and writes no entry.
C9_PendingFlowDestroyed ==
    last.op = "complete_google_auth"
    => /\ _pending_flow = None
       /\ ~last.had_pending
          => /\ last.msg = NO_PENDING_FLOW
             /\ ~last.exchanged
             /\ last.ret = None
             /\ last.stored = None
       /\ last.had_pending
          => /\ last.exchanged
             /\ last.msg # NO_PENDING_FLOW

\* C9: complete_google_auth ran without a pending flow after an earlier flow
\* had been started and completed.
C9_CompleteAfterComplete ==
    /\ last.op = "complete_google_auth"
    /\ ~last.had_pending
    /\ next_flow > 1

\* The entry of user_email resolves: its record is valid, or it is expired with
\* a refresh token the provider accepts.
Resolves(fs, user_email, outcome) ==
    LET creds == get_credential(fs, user_email)
    IN  /\ creds # None
        /\ \/ valid(creds)
           \/ /\ expired(creds)
              /\ creds.refresh_token # None
              /\ creds.client
              /\ outcome = "ok"

C13_ReturnedCredentialsValid ==
    last.op = "get_credentials" => (last.ret = None \/ valid(last.ret))

\* C14 (as claimed): with the multi-user flag enabled a request without an
\* identity gets no credentials; the any-available fallback serves a request
\* only with the flag disabled.
C14_ResolutionModeFlag ==
    (last.op = "get_service_for_user" /\ last.user = None /\ last.oauth21)
    => /\ last.ret = None
       /\ last.msg # ""

-----------------------------------------------------------------------------
(* Claims about calls running side by side, checked under SpecConcurrent *)

BothFinishedRefreshed ==
    \A w \in Workers : Proc(w).pc = "done" /\ Proc(w).refreshed

\* C15 (as claimed): once two concurrent resolutions of one expired entry have
\* both refreshed and finished, get(user) returns one of the two refreshed
\* records in full, never the stale record and never a mixture.
C15_ConcurrentRefresh ==
    BothFinishedRefreshed
    => \E w \in Workers : get_credential(files, UserPlain) = Proc(w).ret

-----------------------------------------------------------------------------
(* Claims about single records, checked under SpecRecords *)

\* get_credential returned a record (the file was there and decoded)
IsRecord(v) == v # None /\ ~IsRaised(v)

\* C11: get_credentials_for_user returns the stored record as it is, with no
\* refresh attempt and no Store write, exactly when the record has an access
\* token and its expiry is absent or later than now; a record without expiry
\* is never refreshed.
C11_ValidityCheck ==
    (last.op = "get_credentials_for_user" /\ IsRecord(last.before))
    => /\ (/\ last.before.token # None
           /\ last.before.expiry = None \/ last.before.expiry.hour > now)
          <=> (last.ret = last.before /\ last.attempts = <<>> /\ ~last.wrote)
       /\ last.before.expiry = None => (last.attempts = <<>> /\ ~last.wrote)

\* C11: a record without expiry that has a refresh token was returned as it
\* is, after the clock had advanced.
C11_NonExpiringReturned ==
    /\ last.op = "get_credentials_for_user"
    /\ IsRecord(last.before)
    /\ last.before.expiry = None
    /\ last.before.token # None
    /\ last.before.refresh_token # None
    /\ now > 0
    /\ last.ret = last.before

\* C16 (as claimed): decoding a Store file never hands out a record that lacks
\* an access token; such a file fails to decode.
C16_NoPartialRecord ==
    (last.op = "get_credential" /\ IsRecord(last.ret)) => last.ret.token # None

\* C17 (as claimed): get_credential never raises; whatever the file holds it
\* returns a record or absent, and it leaves the Store as it was.
C17_GetNeverRaises ==
    last.op = "get_credential"
    => /\ last.ret = None \/ ~IsRaised(last.ret)
       /\ ~last.wrote

\* C18 (as claimed): resolving an expired record that has a refresh token but
\* no client id and secret makes at most one refresh attempt and gives the
\* caller an error, not the answer it gives for a user without an entry.
C18_CannotSelfRefresh ==
    (/\ last.op = "get_credentials_for_user"
     /\ IsRecord(last.before)
     /\ StaleRefreshable(last.before)
     /\ ~last.before.client)
    => /\ Len(last.attempts) <= 1
       /\ last.ret # None

\* Every field of the record is populated.
AllPopulated(r) ==
    /\ r.token # None
    /\ r.refresh_token # None
    /\ r.token_uri # None
    /\ r.client
    /\ r.scopes # None
    /\ r.expiry # None

\* C19: right after a successful store_credential(u, r) of a record with all
\* fields populated, get_credential(u) returns a record with r's access token,
\* refresh token, token endpoint, client id and secret, set of scopes and
\* expiry instant, whatever u's entry held before.
C19_StoreRoundTrip ==
    (last.op = "store_credential" /\ last.ret = <<TRUE>> /\ AllPopulated(last.before))
    => \E g \in {get_credential(files, last.user)} :
          /\ IsRecord(g)
          /\ g.token = last.before.token
          /\ g.refresh_token = last.before.refresh_token
          /\ g.token_uri = last.before.token_uri
          /\ g.client = last.before.client
          /\ Range(g.scopes) = Range(last.before.scopes)
          /\ g.expiry = last.before.expiry

\* C19: a fully populated record with another token endpoint was stored over
\* a fully populated record, after the clock had advanced.
C19_SecondStoreReadBack ==
    /\ last.op = "store_credential"
    /\ last.ret = <<TRUE>>
    /\ AllPopulated(last.before)
    /\ IsRecord(last.prior)
    /\ AllPopulated(last.prior)
    /\ last.prior.token_uri # last.before.token_uri
    /\ last.before.token_uri = OTHER_TOKEN_URI
    /\ now > 0
    /\ get_credential(files, last.user) = last.before

-----------------------------------------------------------------------------
(* Claims about a missing client configuration, checked under SpecFlows *)

\* The lines of an error text that tell the user what to run or to set
RemediationLines ==
    {"  appscript-mcp setup",
     "  export GOOGLE_OAUTH_CLIENT_ID='your-client-id'",
     "  export GOOGLE_OAUTH_CLIENT_SECRET='your-client-secret'"}

HasRemediation(error) == \E i \in 1..Len(error) : error[i] \in RemediationLines

\* C20 (as claimed): without a client configuration a start of either flow
\* style fails with an error text that carries remediation steps, returns no
\* flow, authorization URL or credentials, and leaves the pending flow as it
\* was.
C20_MissingClientConfig ==
    [][(~client_config /\ last'.op \in {"start_google_auth", "auth_interactive"})
       => /\ HasRemediation(last'.error)
          /\ last'.ret = None
          /\ ~last'.exchanged
          /\ _pending_flow' = _pending_flow]_vars

-----------------------------------------------------------------------------
(* Claims about tool calls, checked under SpecTools *)

\* The tool's credential lookup found no credentials or raised.
LookupFailed == last.lookup = None \/ IsRaised(last.lookup)

\* C21: a tool call whose credential lookup returns nothing (no entry, an
\* entry that does not resolve, a rejected refresh) or raises returns a text
\* result, lets no exception out, and does not call the wrapped API function.
C21_ToolBoundary ==
    (last.op = "tool" /\ LookupFailed)
    => /\ last.propagated = <<>>
       /\ last.msg \in {AUTHENTICATION_ERROR, ERROR}
       /\ ~last.called

\* C21: the lookup of a tool call raised on a damaged entry and the call
\* returned the error text.
C21_RaisedInsideLookup ==
    /\ last.op = "tool"
    /\ last.lookup # None
    /\ IsRaised(last.lookup)
    /\ last.msg = ERROR
    /\ ~last.called

\* The account the provider issued the credentials to
Owner(creds) == creds.token.acct

\* C26 (as claimed): a tool called without user_google_email hands the wrapped
\* function the identity of the owner of the credentials its service was
\* built with.
C26_IdentityMatchesCredentials ==
    (last.op = "tool" /\ last.user = None /\ last.called)
    => last.injected = Owner(last.ret)

\* C27 (as claimed): a tool called with an explicit user_google_email is
\* served only with credentials issued to that user, and returns the
\* authentication error whenever it is not served.
C27_ExplicitIdentityExclusive ==
    (last.op = "tool" /\ last.user # None)
    => /\ last.called => Owner(last.ret) = last.user
       /\ ~last.called => last.msg = AUTHENTICATION_ERROR

-----------------------------------------------------------------------------
(* Claims about the CLI adapter, checked under SpecCli *)

IsPair(v) == "success" \in DOMAIN v

\* C23: run_clasp_login(), run_clasp_logout() and install_clasp_global()
\* return a (success, message) pair however their subprocesses end; success
\* is False when the program is missing, when the probe fails, and when the
\* command times out, exits with a non-zero code or cannot be started.
C23_CliAdapterResults ==
    /\ last.op \in {"clasp_login", "clasp_logout", "install_clasp_global"}
       => IsPair(last.ret)
    /\ (/\ last.op \in {"clasp_login", "clasp_logout"}
        /\ \/ ~env.npx
           \/ last.outcome[1] # "exit0"
           \/ last.outcome[2] # "exit0")
       => ~last.ret.success
    /\ (/\ last.op = "install_clasp_global"
        /\ \/ ~env.npm
           \/ IsException(last.outcome[1])
           \/ last.outcome[1] = "exit1" /\ (~last.oauth21 \/ last.outcome[2] # "exit0"))
       => ~last.ret.success

\* C23: `clasp login` could not be started on a host that has clasp, and
\* run_clasp_login() returned (False, message).
C23_LoginCouldNotStart ==
    /\ last.op = "clasp_login"
    /\ env.npx
    /\ env.clasp
    /\ last.outcome = <<"exit0", "PermissionError">>
    /\ IsPair(last.ret)
    /\ ~last.ret.success

-----------------------------------------------------------------------------
(* Claims about the expiry encodings, checked under SpecResolver *)

\* The instant an epoch-milliseconds value names, written as the Store writes
\* an expiry: the ISO-8601 text of the naive UTC datetime.
StoreEncoding(expiry_date) == isoformat(datetime(expiry_date.ms \div MS_PER_UNIT))

\* C24 (as claimed): the expiry of credentials decoded from the CLI token
\* cache equals the expiry the Store decodes from the ISO-8601 text of the
\* same instant, whatever the host's time zone.
C24_ExpiryNormalization ==
    (last.op = "get_credentials" /\ last.cli_read /\ last.ret # None)
    => last.ret.expiry = fromisoformat(StoreEncoding(clasprc.token.expiry_date))

-----------------------------------------------------------------------------
(* Claims about delete, checked under SpecStore *)

\* C25 (as claimed): delete_credential(u) returns True whether or not u has an
\* entry; after it get_credential(u) is absent, u is not listed, a second
\* delete would change nothing, and every other user's entry is as it was.
C25_IdempotentDelete ==
    [][\A u \in Users :
          (last'.op = "delete_credential" /\ last'.user = u)
          => /\ last'.ret = <<TRUE>>
             /\ get_credential(files', u) = None
             /\ ~Listed(files', u)
             /\ delete_credential(files', u) = files'
             /\ \A B \in Users \ {u} : get_credential(files', B) = get_credential(files, B)
      ]_vars

-----------------------------------------------------------------------------
(* Claims about a read beside a write, checked under SpecConcurrent *)

\* C28 (as claimed): a get_credential that runs while a refreshed record is
\* being stored over the user's entry returns a record in full, never absent
\* and never a record without its access token.
C28_AtomicVisibility ==
    (/\ last.op = "get_credential"
     /\ files[path_of[UserPlain]] # NoFile
     /\ \E w \in Workers : Proc(w).refreshed /\ Proc(w).pc \in {"write", "chmod"})
    => /\ IsRecord(last.ret)
       /\ last.ret.token # None

\* The permission bits let someone other than the owner read the file.
OthersCanRead(mode) == mode \notin {MODE_600, MODE_000}

\* C29 (as claimed): no credential file that holds token data has permission
\* bits that let others read it, at any step of a store.
C29_NoExposureWindow ==
    \A path \in FileNames :
        (files[path] # NoFile /\ files[path].data # MALFORMED)
        => ~OthersCanRead(files[path].mode)

-----------------------------------------------------------------------------
(* Claims about the setup dialogue, checked under SpecSetup *)

\* C30 (as claimed): once setup has accepted a client id and secret and
\* reported them configured for this session, is_oauth_configured() is true
\* and get_client_config() returns the client made of that id and secret.
C30_SessionConfiguration ==
    (last.op = "run_setup" /\ last.msg = CONFIGURED_FOR_SESSION)
    => /\ is_oauth_configured(_oauth_config, os_environ)
       /\ get_client_config(_oauth_config, os_environ, None) = [installed |-> last.before]

=============================================================================
